---- MODULE Spec2Model ----
(***************************************************************************)
(* Model of hhd/device/legion_go/__init__.py: the passthrough gate         *)
(* (class SelectivePasshtrough) and the xinput session loop              *)
(* (controller_loop_xinput) with its supervisor (main).                    *)
(*                                                                         *)
(* Events are records [type, code, value].  A Python bool is an int, so    *)
(* button values are 1 (True, pressed) and 0 (False, released).            *)
(***************************************************************************)
EXTENDS Integers, Sequences, FiniteSets, TLC

\* ------------------------------------------------------------------ bounds
\* longest batch the wrapped source returns from one produce call
MaxBatch == 2
\* longest to_disable list explored (the code never trims it while unheld)
MaxPending == 2

\* ------------------------------------------------------------- gate: data
\* forward_buttons default of SelectivePasshtrough.__init__
forward_buttons == {"share", "mode"}

\* button codes of the raw interface that the model distinguishes
Codes == {"share", "mode", "lt"}

Btn(c, v) == [type |-> "button", code |-> c, value |-> v]
Axis(c, v) == [type |-> "axis", code |-> c, value |-> v]
Cfg(c, v) == [type |-> "configuration", code |-> c, value |-> v]

\* events the wrapped source may return: a press and a release of every
\* button, an axis event, and two configuration events that differ
Events ==
    {Btn(c, v) : c \in Codes, v \in {0, 1}}
        \cup {Axis("lt", 1)} \cup {Cfg("led", v) : v \in {0, 1}}

RECURSIVE SeqsUpTo(_, _)
SeqsUpTo(S, n) ==
    IF n = 0 THEN {<<>>}
    ELSE LET shorter == SeqsUpTo(S, n - 1)
         IN shorter \cup {Append(s, e) : s \in {t \in shorter : Len(t) = n - 1}, e \in S}

\* the configuration events among them
ConfigEvents == {ev \in Events : ev.type = "configuration"}

\* batches the wrapped source may return (self.parent.produce(fds)): every
\* batch of at most MaxBatch events, and every batch of MaxBatch events behind
\* a leading configuration event
Batches ==
    SeqsUpTo(Events, MaxBatch)
        \cup {<<c>> \o b : c \in ConfigEvents,
                            b \in {t \in SeqsUpTo(Events, MaxBatch) : Len(t) = MaxBatch}}

Range(f) == {f[i] : i \in DOMAIN f}

\* Python truthiness of an event value
Truthy(v) == v # 0

VARIABLES
    gpc,           \* "idle", or "returned": a produce call of the gate just returned
    passthrough,   \* self.passthrough: the allow-list
    state,         \* self.state: held
    to_disable,    \* self.to_disable: pending_release
    g_calls,       \* number of produce calls made on the gate (3 = more than 2)
    g_evs,         \* evs of the call that just returned (what the parent returned)
    g_ret,         \* the value the call returned
    g_prev,        \* prev_state of the call
    g_prevdis,     \* self.to_disable when the call started
    g_scanned,     \* self.to_disable when the scan loop of the call ended
    g_prevdang,    \* dangling when the call started
    down,          \* buttons down according to the events seen so far
    alternating,   \* so far every press found its button up, every release down
    faithful,      \* alternating, and held matched the modifiers after every call
    dangling       \* non-allow-listed codes whose last output event is a press

gvars == <<gpc, passthrough, state, to_disable, g_calls, g_evs, g_ret, g_prev,
           g_prevdis, g_scanned, g_prevdang, down, alternating,
           faithful, dangling>>

\* --------------------------------------------------------- gate: produce
\* mutant: a modifier release does not reset self.state
RECURSIVE ScanState_Sticky(_, _)
ScanState_Sticky(s, evs) ==
    IF evs = <<>> THEN s
    ELSE LET ev == Head(evs)
         IN ScanState_Sticky(IF ev.type = "button" /\ ev.code \in forward_buttons
                                THEN s \/ Truthy(ev.value) ELSE s,
                             Tail(evs))

\* lines 295-297: self.state after the scan of evs, starting from s
RECURSIVE ScanState(_, _)
ScanState(s, evs) ==
    IF evs = <<>> THEN s
    ELSE LET ev == Head(evs)
         IN ScanState(IF ev.type = "button" /\ ev.code \in forward_buttons
                         THEN Truthy(ev.value) ELSE s,
                      Tail(evs))

\* mutant: axis events of the allow-list are forwarded too
Forwarded_Axis(ev) ==
    \/ ev.type = "configuration"
    \/ ev.type \in {"button", "axis"} /\ ev.code \in passthrough

\* lines 299-302: does the scan append ev to out
Forwarded(ev) ==
    \/ ev.type = "configuration"
    \/ ev.type = "button" /\ ev.code \in passthrough

\* mutant: the press branch is an if, not an elif of the allow-list branch
Disabled_AllowListed(ev) ==
    /\ ev.type = "button"
    /\ Truthy(ev.value)

\* mutant: the press of a modifier is not recorded
Disabled_SkipModifier(ev) ==
    /\ ~Forwarded(ev)
    /\ ev.type = "button"
    /\ ev.code \notin forward_buttons
    /\ Truthy(ev.value)

\* lines 303-304: does the scan append ev's code to self.to_disable
Disabled(ev) ==
    /\ ~Forwarded(ev)
    /\ ev.type = "button"
    /\ Truthy(ev.value)

\* mutant: the scan puts each forwarded event at the front of out
RECURSIVE ScanOut_Prepend(_)
ScanOut_Prepend(evs) ==
    IF evs = <<>> THEN <<>>
    ELSE IF Forwarded(Head(evs)) THEN ScanOut_Prepend(Tail(evs)) \o <<Head(evs)>>
    ELSE ScanOut_Prepend(Tail(evs))

\* lines 293, 299-302: the accumulator out after the scan of evs
RECURSIVE ScanOut(_)
ScanOut(evs) ==
    IF evs = <<>> THEN <<>>
    ELSE IF Forwarded(Head(evs)) THEN <<Head(evs)>> \o ScanOut(Tail(evs))
    ELSE ScanOut(Tail(evs))

\* lines 303-304: self.to_disable after the scan of evs, starting from td
RECURSIVE ScanDisable(_, _)
ScanDisable(td, evs) ==
    IF evs = <<>> THEN td
    ELSE ScanDisable(IF Disabled(Head(evs)) THEN Append(td, Head(evs).code) ELSE td,
                     Tail(evs))

\* mutant: the synthesized event is a press
Release_Press(btn) == Btn(btn, 1)

\* line 313: the synthesized release of btn
Release(btn) == Btn(btn, 0)

\* lines 312-313: one synthesized release per entry of self.to_disable
Releases(td) == [i \in 1..Len(td) |-> Release(td[i])]

\* mutant: the filtered accumulator is returned while held
GateReturn_Filtered(prev, st, evs, out, td) ==
    IF ~st /\ prev THEN out \o Releases(td) ELSE out

\* lines 306-318: the value produce returns
GateReturn(prev, st, evs, out, td) ==
    IF st THEN evs
    ELSE IF prev THEN out \o Releases(td)
    ELSE out

\* mutant: the list is not cleared after the flush
GateDisable_NoClear(prev, st, td) == td

\* lines 306-318: self.to_disable when produce returns
GateDisable(prev, st, td) ==
    IF st THEN td
    ELSE IF prev THEN <<>>
    ELSE td

\* ------------------------------------------------- observers of the gate
\* the buttons down after the events of evs, and whether each press found
\* its button up and each release found it down
RECURSIVE Track(_, _)
Track(t, evs) ==
    IF evs = <<>> THEN t
    ELSE LET ev == Head(evs)
         IN Track(IF ev.type # "button" THEN t
                  ELSE IF Truthy(ev.value)
                       THEN [down |-> t.down \cup {ev.code},
                             ok |-> t.ok /\ ev.code \notin t.down]
                  ELSE [down |-> t.down \ {ev.code},
                        ok |-> t.ok /\ ev.code \in t.down],
                  Tail(evs))

\* non-allow-listed codes whose last event in the cumulative output is a press
RECURSIVE Dangle(_, _)
Dangle(d, out) ==
    IF out = <<>> THEN d
    ELSE LET ev == Head(out)
         IN Dangle(IF ev.type # "button" \/ ev.code \in passthrough THEN d
                   ELSE IF Truthy(ev.value) THEN d \cup {ev.code}
                   ELSE d \ {ev.code},
                   Tail(out))

\* the locals of produce, which exist only until the caller has the result
NoCall ==
    /\ g_evs = <<>>
    /\ g_ret = <<>>
    /\ g_prev = FALSE
    /\ g_prevdis = <<>>
    /\ g_scanned = <<>>
    /\ g_prevdang = {}

\* lines 290-318: what produce returns when the wrapped source returns evs
GateOutput(evs) ==
    GateReturn(state, ScanState(state, evs), evs, ScanOut(evs),
               ScanDisable(to_disable, evs))

\* lines 290-318: the fields of the gate after a produce call on evs
GateFields(evs) ==
    LET st == ScanState(state, evs)
        td == ScanDisable(to_disable, evs)
    IN /\ Len(td) <= MaxPending
       /\ state' = st
       /\ to_disable' = GateDisable(state, st, td)

\* lines 295-304: the fields of the gate when a KeyboardInterrupt surfaces in
\* the scan of evs after j events, with the assignment of line 297 made for
\* the next event (half) or not; nothing is flushed yet
GateFieldsCut(evs, j, half) ==
    LET st == ScanState(state, SubSeq(evs, 1, IF half THEN j + 1 ELSE j))
        td == ScanDisable(to_disable, SubSeq(evs, 1, j))
    IN /\ Len(td) <= MaxPending
       /\ state' = st
       /\ to_disable' = td

\* lines 290-318: one call of SelectivePasshtrough.produce in which the
\* wrapped source returns evs
Produce(evs) ==
    LET st == ScanState(state, evs)
        td == ScanDisable(to_disable, evs)
        ret == GateOutput(evs)
    IN /\ GateFields(evs)
       /\ g_calls' = IF g_calls < 3 THEN g_calls + 1 ELSE 3
       /\ g_evs' = evs
       /\ g_ret' = ret
       /\ g_prev' = state
       /\ g_prevdis' = to_disable
       /\ g_scanned' = td
       /\ g_prevdang' = dangling
       /\ LET t == Track([down |-> down, ok |-> alternating], evs)
          IN /\ alternating' = t.ok
             /\ down' = IF t.ok THEN t.down ELSE {}
             /\ faithful' = (faithful /\ t.ok
                               /\ (st <=> t.down \cap forward_buttons # {}))
       /\ dangling' = Dangle(dangling, ret)
       /\ UNCHANGED passthrough

\* lines 270-282: a new gate; the allow-list is any list of button codes
GateInit ==
    /\ gpc = "idle"
    /\ passthrough \in SUBSET Codes
    /\ state = FALSE
    /\ to_disable = <<>>
    /\ g_calls = 0
    /\ NoCall
    /\ down = {}
    /\ alternating = TRUE
    /\ faithful = TRUE
    /\ dangling = {}

\* ------------------------------------------------------ session: data
\* most handles select reports ready in one iteration
MaxReady == 2

\* the devices controller_loop_xinput creates (lines 140-185)
Devices == {"d_ds5", "d_accel", "d_gyro", "d_xinput", "d_shortcuts", "d_touch", "d_raw"}

\* mutant: the batch is not handed to the gate
Sinks_NoRaw == <<"d_ds5", "d_xinput">>

\* lines 243-245: the devices the batch is dispatched to, in call order
Sinks == <<"d_ds5", "d_xinput", "d_raw">>

\* number of handles open() returns for a device
HandleCount(m) == IF m = "d_touch" THEN 2 ELSE 1

\* outcomes of a call into a device, the multiplexer or the OS: it returns,
\* raises an Exception, or a KeyboardInterrupt arrives during it
Outcomes == {"ok", "error", "interrupt"}
Raised(o) == IF o = "error" THEN "Exception" ELSE "KeyboardInterrupt"

\* ticks of the clock (time.perf_counter, time.sleep) per second
TicksPerSecond == 800

\* line 25, in seconds
ERROR_DELAY == 5

\* lines 195-196, in reports per second
REPORT_FREQ_MIN == 25
REPORT_FREQ_MAX == 400

\* lines 198-199, in ticks
REPORT_DELAY_MAX == TicksPerSecond \div REPORT_FREQ_MIN
REPORT_DELAY_MIN == TicksPerSecond \div REPORT_FREQ_MAX

\* line 227: ticks select may block before it returns a ready handle: any
\* number up to the timeout
Waits == (0..REPORT_DELAY_MIN) \cup {REPORT_DELAY_MAX}

\* ticks a call into a device or the multiplexer may take, and ticks
\* time.sleep may return late: any number, REPORT_DELAY_MIN standing for more
CallTicks == 0..REPORT_DELAY_MIN

\* a time difference t, dt ticks later; differences of REPORT_DELAY_MIN and
\* more are not told apart (lines 258-259 compare with REPORT_DELAY_MIN
\* only), and a difference with no first timestamp yet counts as that long
After(t, dt) == IF t + dt < REPORT_DELAY_MIN THEN t + dt ELSE REPORT_DELAY_MIN

\* lines 258-260: the argument of the pacing sleep, 0 when it is skipped
PaceSleep(e) == IF e < REPORT_DELAY_MIN THEN REPORT_DELAY_MIN - e ELSE 0

\* lines 284-288, 320-321: the object SelectivePasshtrough hands a call of
\* open, close or consume to: self.parent, or for close the base class
\* (super()), which knows nothing of the wrapped source
Delegate(method) == IF method = "close" THEN "super" ELSE "parent"

\* mutant: close drops the pending releases and the held flag
FieldsAfter_CloseClears(method, st, td) ==
    IF method = "close" THEN <<FALSE, <<>>>> ELSE <<st, td>>

\* lines 284-288, 320-321: self.state and self.to_disable after the gate's
\* open, close or consume, which assign neither
FieldsAfter(method, st, td) == <<st, td>>

\* the gate's fields after a call of method on device d of the session
FieldsAfterCall(method, d) ==
    IF d = "d_raw" THEN FieldsAfter(method, state, to_disable)
    ELSE <<state, to_disable>>

\* mutant: main returns on every exception
Handler_Return(e) == "exited"

\* lines 114-122: the except clause main enters when exception e reaches its
\* try block: the logger.info call of line 121, or the backoff of lines 115-119
Handler(e) == IF e = "KeyboardInterrupt" THEN "log_interrupt" ELSE "sleep_error"

\* lines 90, 101, 112, 119: the argument of time.sleep in main, in ticks,
\* when main is at position p
DelayAt(p) ==
    IF p \in {"sleep_notfound", "sleep_mode", "sleep_error"}
    THEN ERROR_DELAY * TicksPerSecond
    ELSE 0

\* the event a source other than the gate reports, named after the source
EventOf(d) == Axis(d, 1)

\* batches the wrapped raw source returns in a session iteration: those of at
\* most one event, of one modifier, one other button and one configuration
\* event (SpecGate explores the longer ones, both modifiers, the axis and
\* both configuration events)
RawBatches ==
    {<<>>} \cup {<<e>> : e \in {Btn(c, v) : c \in {"mode", "lt"}, v \in {0, 1}}
                                \cup {Cfg("led", 1)}}

\* line 238: multiplexer.process, an opaque function of the merged batch
Process(evs) == <<[type |-> "normalized", code |-> evs, value |-> 1]>>

VARIABLES
    pc,            \* position of main / controller_loop_xinput
    accel, gyro,   \* args.accel, args.gyro
    k,             \* index of the prepare call, of the for loops over devs, of the sink
    devs,          \* devs
    fds,           \* fds
    fd_to_dev,     \* fd_to_dev
    r,             \* r: the handles select returned ready
    evs,           \* evs: the merged batch of the iteration
    exc,           \* the exception propagating out of the session, or "none"
    cause,         \* the call that raised the exception that ended the loop
    log,           \* the produce, process and consume calls of the iteration
    opened,        \* devices whose open() returned in this session
    failed,        \* devices whose open() raised in this session
    closes,        \* number of close(True) calls per device in this session
    close_raised,  \* a close call of this session raised
    elapsed,       \* ticks since start (line 225); at "select", since the last start
    since_dispatch, \* ticks since the last d_ds5.consume call of the session began
    delay,         \* argument of the time.sleep call main is in, 0 if in none
    interrupted,   \* a KeyboardInterrupt ended the try block of this session
    parent_opened, \* number of open() calls that returned on the gate's parent
    parent_closed  \* the arguments of the close calls made on the gate's parent

svars == <<pc, accel, gyro, k, devs, fds, fd_to_dev, r, evs, exc, cause, log,
           opened, failed, closes, close_raised, elapsed, since_dispatch, delay,
           interrupted, parent_opened, parent_closed>>

\* the calls made on the source the gate wraps
pvars == <<parent_opened, parent_closed>>

vars == <<gvars, svars>>

\* the allow-list, and the variables that watch the produce calls of SpecGate
gwatch == <<gpc, passthrough, g_calls, g_evs, g_ret, g_prev, g_prevdis, g_scanned,
            g_prevdang, down, alternating, faithful, dangling>>

\* the part of the state the session loop owns, as left by lines 201-203
NoSession ==
    /\ k = 1
    /\ devs = <<>>
    /\ fds = <<>>
    /\ fd_to_dev = <<>>
    /\ r = {}
    /\ evs = <<>>
    /\ exc = "none"
    /\ cause = "none"
    /\ log = <<>>
    /\ opened = {}
    /\ failed = {}
    /\ closes = [d \in Devices |-> 0]
    /\ close_raised = FALSE
    /\ elapsed = REPORT_DELAY_MIN
    /\ since_dispatch = REPORT_DELAY_MIN
    /\ interrupted = FALSE
    /\ parent_opened = 0
    /\ parent_closed = <<>>

\* lines 76-81: main has parsed its arguments and enters its loop
MainInit ==
    /\ pc = "loop"
    /\ accel \in BOOLEAN
    /\ gyro \in BOOLEAN
    /\ delay = 0
    /\ NoSession

\* lines 213-221: the devices prepared, in order
PrepareList ==
    <<"d_ds5">> \o (IF accel THEN <<"d_accel">> ELSE <<>>)
        \o (IF gyro THEN <<"d_gyro">> ELSE <<>>)
        \o <<"d_xinput", "d_shortcuts", "d_touch", "d_raw">>

\* line 206: the handles open() returns for m, numbered as the OS hands them out
OpenHandles(m) == [i \in 1..HandleCount(m) |-> Len(fds) + i]

\* lines 206-210: the points of prepare(m) after m.open() returned, at each
\* of which a KeyboardInterrupt can surface: 0 before devs.append(m), 1 after
\* it, 2 + j after fds.extend(fs) and j rounds of the loop that fills
\* fd_to_dev; at the last point prepare returns
PrepareEnd(m) == 2 + HandleCount(m)

\* line 207: devs at point p of prepare(m)
DevsAt(ds, m, p) == IF p >= 1 THEN Append(ds, m) ELSE ds

\* line 208: fds at point p of prepare(m)
FdsAt(fs, m, p) == IF p >= 2 THEN fs \o OpenHandles(m) ELSE fs

\* lines 209-210: fd_to_dev at point p of prepare(m)
FdToDevAt(fd, m, p) ==
    [f \in DOMAIN fd \cup {OpenHandles(m)[i] : i \in 1..(p - 2)} |->
        IF f \in DOMAIN fd THEN fd[f] ELSE m]

\* lines 229-231: the devices that own a ready handle
ToRun == {fd_to_dev[f] : f \in r}

\* sets select may return: any ready handles, none on a timeout
ReadySets == {rr \in SUBSET Range(fds) : Cardinality(rr) <= MaxReady}

\* mutant: produce is called on every device, ready or not
NextToRun_Every(i, run) == IF i <= Len(devs) THEN i ELSE 0

\* lines 233-234: the next device from position i on that is in to_run, or 0
NextToRun(i, run) ==
    LET later == {j \in i..Len(devs) : devs[j] \in run}
    IN IF later = {} THEN 0 ELSE CHOOSE j \in later : \A j2 \in later : j <= j2

\* an entry of log: a call of the iteration, the device called and the batch
\* it returned (produce) or was given (process, consume)
Call(o, d, b) == [op |-> o, dev |-> d, arg |-> b]

\* an exception e leaves the try block of lines 212-260: on to the finally
\* block, which reads none of the locals of the iteration
Raise(e, call) ==
    /\ exc' = e
    /\ cause' = call
    /\ pc' = "finally"
    /\ k' = 1
    /\ r' = {}
    /\ evs' = <<>>
    /\ log' = <<>>
    /\ elapsed' = REPORT_DELAY_MIN
    /\ since_dispatch' = REPORT_DELAY_MIN
    /\ interrupted' = (e = "KeyboardInterrupt")

\* ------------------------------------------------------- gate: actions
\* a produce call on the gate, for any batch of the wrapped source
GateProduce ==
    /\ gpc = "idle"
    /\ gpc' = "returned"
    /\ \E b \in Batches : Produce(b)
    /\ UNCHANGED svars

\* the caller has taken the returned batch; the gate keeps only its fields
GateReturned ==
    /\ gpc = "returned"
    /\ gpc' = "idle"
    /\ g_evs' = <<>>
    /\ g_ret' = <<>>
    /\ g_prev' = FALSE
    /\ g_prevdis' = <<>>
    /\ g_scanned' = <<>>
    /\ g_prevdang' = {}
    /\ UNCHANGED <<passthrough, state, to_disable, g_calls, down, alternating,
                   faithful, dangling>>
    /\ UNCHANGED svars

\* ---------------------------------------------------- session: actions
\* lines 84-112 and 140-203: one round of discovery; on xinput the session
\* starts with new devices and a new gate
Enumerate ==
    /\ pc = "enumerate"
    /\ \E found \in {"notfound", "xinput", "other", "error", "interrupt"} :
           /\ pc' = CASE found = "notfound" -> "sleep_notfound"
                      [] found = "xinput" -> "prepare"
                      [] found = "other" -> "sleep_mode"
                      [] found = "error" -> Handler("Exception")
                      [] found = "interrupt" -> Handler("KeyboardInterrupt")
           /\ exc' = CASE found = "error" -> "Exception"
                       [] found = "interrupt" -> "KeyboardInterrupt"
                       [] OTHER -> "none"
           /\ cause' = IF found \in {"error", "interrupt"} THEN "enumerate" ELSE "none"
    /\ delay' = DelayAt(pc')
    /\ elapsed' = REPORT_DELAY_MIN
    /\ since_dispatch' = REPORT_DELAY_MIN
    /\ interrupted' = FALSE
    /\ parent_opened' = 0
    /\ parent_closed' = <<>>
    /\ state' = FALSE
    /\ to_disable' = <<>>
    /\ k' = 1
    /\ devs' = <<>>
    /\ fds' = <<>>
    /\ fd_to_dev' = <<>>
    /\ r' = {}
    /\ evs' = <<>>
    /\ log' = <<>>
    /\ opened' = {}
    /\ failed' = {}
    /\ closes' = [d \in Devices |-> 0]
    /\ close_raised' = FALSE
    /\ UNCHANGED <<accel, gyro>>
    /\ UNCHANGED gwatch

\* line 81: main is at `while True`, before the first round or after the
\* sleep of line 112 or 119 returned, outside the try block of line 82: a
\* KeyboardInterrupt that surfaces here is caught by no except clause
Loop ==
    /\ pc = "loop"
    /\ pc' \in {"enumerate", "raised"}
    /\ UNCHANGED <<state, to_disable, accel, gyro, k, devs, fds, fd_to_dev, r, evs,
                   exc, cause, log, opened, failed, closes, close_raised, elapsed,
                   since_dispatch, delay, interrupted>>
    /\ UNCHANGED gwatch
    /\ UNCHANGED pvars

\* lines 120-122: main logs the interrupt and returns; a further
\* KeyboardInterrupt that surfaces during logger.info leaves the except clause
\* and main raises it
LogInterrupt ==
    /\ pc = "log_interrupt"
    /\ pc' \in {"exited", "raised"}
    /\ UNCHANGED <<state, to_disable, accel, gyro, k, devs, fds, fd_to_dev, r, evs,
                   exc, cause, log, opened, failed, closes, close_raised, elapsed,
                   since_dispatch, delay, interrupted>>
    /\ UNCHANGED gwatch
    /\ UNCHANGED pvars

\* lines 90, 101, 112, 119: time.sleep(ERROR_DELAY). The sleeps of lines 90 and
\* 101 continue the inner loop, inside the try block; those of lines 112 and
\* 119 go back to line 81. A KeyboardInterrupt in the sleep of the except
\* clause (line 119) is not caught by line 120
Sleep ==
    /\ pc \in {"sleep_notfound", "sleep_mode", "sleep_error"}
    /\ \E o \in {"ok", "interrupt"} :
           pc' = IF o = "ok"
                 THEN (IF pc = "sleep_notfound" THEN "enumerate" ELSE "loop")
                 ELSE IF pc = "sleep_error" THEN "raised"
                 ELSE Handler("KeyboardInterrupt")
    /\ delay' = 0
    /\ UNCHANGED <<state, to_disable, accel, gyro, k, devs, fds, fd_to_dev, r, evs,
                   exc, cause, log, opened, failed, closes, close_raised, elapsed,
                   since_dispatch, interrupted>>
    /\ UNCHANGED gwatch
    /\ UNCHANGED pvars

\* lines 205-221: prepare(m) for the k-th device. m.open() raises (an
\* Exception, or a KeyboardInterrupt that arrives inside it) and nothing is
\* registered; or it returns and prepare registers m, statement by statement,
\* up to its return or up to the point a KeyboardInterrupt surfaces at; or,
\* in the gate's open (line 285), the KeyboardInterrupt surfaces after
\* parent.open() returned and before the gate's open returns: the gate's open
\* raises with the wrapped source opened; or a KeyboardInterrupt surfaces
\* before m.open() is called: m is neither opened nor failed.
Prepare ==
    /\ pc = "prepare"
    /\ LET m == PrepareList[k]
       IN \/ \E p \in 0..PrepareEnd(m) :
                 /\ opened' = opened \cup {m}
                 /\ parent_opened' =
                        IF m = "d_raw" /\ Delegate("open") = "parent"
                        THEN parent_opened + 1 ELSE parent_opened
                 /\ devs' = DevsAt(devs, m, p)
                 /\ fds' = FdsAt(fds, m, p)
                 /\ fd_to_dev' = FdToDevAt(fd_to_dev, m, p)
                 /\ UNCHANGED failed
                 /\ \/ /\ p = PrepareEnd(m)
                       /\ pc' = IF k = Len(PrepareList) THEN "select" ELSE "prepare"
                       /\ k' = IF k = Len(PrepareList) THEN 1 ELSE k + 1
                       /\ UNCHANGED <<exc, cause, r, evs, log, elapsed,
                                       since_dispatch, interrupted>>
                    \/ Raise("KeyboardInterrupt", "prepare")
          \/ \E o \in {"error", "interrupt"} :
                 /\ failed' = failed \cup {m}
                 /\ Raise(Raised(o), "open")
                 /\ UNCHANGED <<opened, devs, fds, fd_to_dev, parent_opened>>
          \/ /\ m = "d_raw" /\ Delegate("open") = "parent"
             /\ parent_opened' = parent_opened + 1
             /\ failed' = failed \cup {m}
             /\ Raise("KeyboardInterrupt", "open")
             /\ UNCHANGED <<opened, devs, fds, fd_to_dev>>
          \/ /\ Raise("KeyboardInterrupt", "prepare")
             /\ UNCHANGED <<opened, failed, devs, fds, fd_to_dev, parent_opened>>
    /\ state' = FieldsAfterCall("open", PrepareList[k])[1]
    /\ to_disable' = FieldsAfterCall("open", PrepareList[k])[2]
    /\ UNCHANGED <<accel, gyro, closes, close_raised, delay, parent_closed>>
    /\ UNCHANGED gwatch

\* lines 225-231: a new iteration; select returns the ready handles, none on
\* a timeout of REPORT_DELAY_MAX
Select ==
    /\ pc = "select"
    /\ \/ \E rr \in ReadySets :
              /\ r' = rr
              /\ \E dt \in (IF rr = {} THEN {REPORT_DELAY_MAX} ELSE Waits) :
                     /\ elapsed' = After(0, dt)
                     /\ since_dispatch' = After(since_dispatch, dt)
              /\ log' = <<>>
              /\ evs' = <<>>
              /\ LET first == NextToRun(1, {fd_to_dev[f] : f \in rr})
                 IN /\ pc' = IF first = 0 THEN "dispatch" ELSE "produce"
                    /\ k' = IF first = 0 THEN 1 ELSE first
              /\ UNCHANGED <<exc, cause, interrupted>>
       \/ \E o \in {"error", "interrupt"} : Raise(Raised(o), "select")
    /\ UNCHANGED <<state, to_disable, accel, gyro, devs, fds, fd_to_dev, opened,
                   failed, closes, close_raised, delay>>
    /\ UNCHANGED gwatch
    /\ UNCHANGED pvars

\* lines 233-235: produce on the k-th device, which is in to_run; produce on
\* d_raw is the gate's. An Exception comes from the source (line 291 for the
\* gate) and leaves the gate's fields; a KeyboardInterrupt can surface
\* anywhere in the gate's produce, with the fields written so far.
ProduceDev ==
    /\ pc = "produce"
    /\ LET d == devs[k]
           next == NextToRun(k + 1, ToRun)
       IN \/ /\ pc' = IF next = 0 THEN "dispatch" ELSE "produce"
             /\ k' = IF next = 0 THEN 1 ELSE next
             /\ IF d = "d_raw"
                THEN \E b \in RawBatches :
                         /\ GateFields(b)
                         /\ evs' = evs \o GateOutput(b)
                         /\ log' = Append(log, Call("produce", d, GateOutput(b)))
                ELSE /\ \E b \in {<<>>, <<EventOf(d)>>} :
                            /\ evs' = evs \o b
                            /\ log' = Append(log, Call("produce", d, b))
                     /\ UNCHANGED <<state, to_disable>>
             /\ \E dt \in CallTicks :
                    /\ elapsed' = After(elapsed, dt)
                    /\ since_dispatch' = After(since_dispatch, dt)
             /\ UNCHANGED <<exc, cause, r, interrupted>>
          \/ /\ Raise("Exception", "produce")
             /\ UNCHANGED <<state, to_disable>>
          \/ /\ Raise("KeyboardInterrupt", "produce")
             /\ IF d = "d_raw"
                THEN \E b \in RawBatches :
                         \/ GateFields(b)
                         \/ \E j \in 0..Len(b), half \in BOOLEAN :
                                /\ half => j < Len(b)
                                /\ GateFieldsCut(b, j, half)
                ELSE UNCHANGED <<state, to_disable>>
    /\ UNCHANGED <<accel, gyro, devs, fds, fd_to_dev, opened, failed, closes,
                   close_raised, delay>>
    /\ UNCHANGED gwatch
    /\ UNCHANGED pvars

\* lines 237-241: an empty batch skips the dispatch; otherwise the
\* multiplexer processes the batch
Dispatch ==
    /\ pc = "dispatch"
    /\ IF evs = <<>>
       THEN /\ pc' = "pace"
            /\ UNCHANGED <<evs, log, exc, cause, k, r, elapsed, since_dispatch,
                           interrupted>>
       ELSE \/ /\ evs' = Process(evs)
               /\ \E dt \in CallTicks :
                      /\ elapsed' = After(elapsed, dt)
                      /\ since_dispatch' = After(since_dispatch, dt)
               /\ log' = Append(log, Call("process", "multiplexer", evs))
               /\ pc' = "consume"
               /\ k' = 1
               /\ UNCHANGED <<exc, cause, r, interrupted>>
            \/ \E o \in {"error", "interrupt"} : Raise(Raised(o), "process")
    /\ UNCHANGED <<state, to_disable, accel, gyro, devs, fds, fd_to_dev, opened,
                   failed, closes, close_raised, delay>>
    /\ UNCHANGED gwatch
    /\ UNCHANGED pvars

\* lines 243-245: consume on the k-th sink; the dispatch to the sinks begins
\* with the call on the first one
Consume ==
    /\ pc = "consume"
    /\ \/ /\ log' = Append(log, Call("consume", Sinks[k], evs))
          /\ \E dt \in CallTicks :
                 /\ elapsed' = After(elapsed, dt)
                 /\ since_dispatch' = After(IF k = 1 THEN 0 ELSE since_dispatch, dt)
          /\ pc' = IF k = Len(Sinks) THEN "pace" ELSE "consume"
          /\ k' = IF k = Len(Sinks) THEN 1 ELSE k + 1
          /\ UNCHANGED <<exc, cause, r, evs, interrupted>>
       \/ \E o \in {"error", "interrupt"} : Raise(Raised(o), "consume")
    /\ state' = FieldsAfterCall("consume", Sinks[k])[1]
    /\ to_disable' = FieldsAfterCall("consume", Sinks[k])[2]
    /\ UNCHANGED <<accel, gyro, devs, fds, fd_to_dev, opened, failed, closes,
                   close_raised, delay>>
    /\ UNCHANGED gwatch
    /\ UNCHANGED pvars

\* lines 257-260 and 224-225: the pacing sleep that ends the iteration, which
\* is called only when elapsed is less than REPORT_DELAY_MIN; the next
\* iteration starts with no call made and r and evs still to be assigned. A
\* KeyboardInterrupt can surface in the sleep or in the lines around it.
Pace ==
    /\ pc = "pace"
    /\ \/ /\ pc' = "select"
          /\ r' = {}
          /\ evs' = <<>>
          /\ log' = <<>>
          /\ \E late \in (IF PaceSleep(elapsed) = 0 THEN {0} ELSE CallTicks) :
                 /\ elapsed' = After(elapsed, PaceSleep(elapsed) + late)
                 /\ since_dispatch' = After(since_dispatch, PaceSleep(elapsed) + late)
          /\ UNCHANGED <<exc, cause, k, interrupted>>
       \/ Raise("KeyboardInterrupt", "sleep")
    /\ UNCHANGED <<state, to_disable, accel, gyro, devs, fds, fd_to_dev, opened,
                   failed, closes, close_raised, delay>>
    /\ UNCHANGED gwatch
    /\ UNCHANGED pvars

\* lines 264-266: the finally block; close(True) on the k-th device of devs.
\* An exception of close leaves the loop and replaces the one propagating,
\* and so does a KeyboardInterrupt that surfaces in the loop between two
\* close calls, before the first or after the last.
Close ==
    /\ pc = "finally"
    /\ \/ IF k > Len(devs)
          THEN /\ pc' = "exit"
               /\ UNCHANGED <<k, exc, closes, close_raised, parent_closed, state,
                              to_disable>>
          ELSE /\ closes' = [closes EXCEPT ![devs[k]] = @ + 1]
               /\ state' = FieldsAfterCall("close", devs[k])[1]
               /\ to_disable' = FieldsAfterCall("close", devs[k])[2]
               /\ parent_closed' =
                      IF devs[k] = "d_raw" /\ Delegate("close") = "parent"
                      THEN Append(parent_closed, TRUE) ELSE parent_closed
               /\ \E o \in Outcomes :
                      IF o = "ok"
                      THEN /\ k' = k + 1
                           /\ UNCHANGED <<pc, exc, close_raised>>
                      ELSE /\ exc' = Raised(o)
                           /\ close_raised' = TRUE
                           /\ pc' = "exit"
                           /\ UNCHANGED k
       \/ /\ exc' = "KeyboardInterrupt"
          /\ pc' = "exit"
          /\ UNCHANGED <<k, closes, close_raised, parent_closed, state, to_disable>>
    /\ UNCHANGED <<accel, gyro, devs, fds, fd_to_dev, r, evs, log,
                   cause, opened, failed, elapsed, since_dispatch, delay,
                   interrupted, parent_opened>>
    /\ UNCHANGED gwatch

\* lines 114-122: the exception reaches main
Propagate ==
    /\ pc = "exit"
    /\ pc' = Handler(exc)
    /\ delay' = DelayAt(pc')
    /\ UNCHANGED <<state, to_disable, accel, gyro, k, devs, fds, fd_to_dev, r, evs,
                   exc, cause, log, opened, failed, closes, close_raised, elapsed,
                   since_dispatch, interrupted>>
    /\ UNCHANGED gwatch
    /\ UNCHANGED pvars

\* ------------------------------------------------------ specifications
Init == GateInit /\ MainInit

Next ==
    \/ Loop
    \/ Enumerate
    \/ Sleep
    \/ Prepare
    \/ Select
    \/ ProduceDev
    \/ Dispatch
    \/ Consume
    \/ Pace
    \/ Close
    \/ Propagate
    \/ LogInterrupt

\* main with its sessions
Spec == Init /\ [][Next]_vars

GateNext == GateProduce \/ GateReturned

\* a new gate in a main that has not started a session
InitGate == GateInit /\ MainInit /\ accel /\ gyro

\* the gate alone, under any sequence of batches and any allow-list
SpecGate == InitGate /\ [][GateNext]_vars

\* ------------------------------------------------------- gate: properties
\* a produce call of the gate has just returned
Returned == gpc = "returned"

\* the call that just returned took held from true to false
Transition == g_prev /\ ~state

InAllowList(ev) == ev.code \in passthrough
IsButton(ev) == ev.type = "button"
IsConfig(ev) == ev.type = "configuration"
IsPress(ev) == ev.type = "button" /\ ev.value = 1
ConfigOrListedButton(ev) == IsConfig(ev) \/ (IsButton(ev) /\ InAllowList(ev))
ConfigOrListed(ev) == IsConfig(ev) \/ (ev.type \in {"button", "axis"} /\ InAllowList(ev))
UnlistedPress(ev) == IsPress(ev) /\ ~InAllowList(ev)
UnlistedOtherPress(ev) == UnlistedPress(ev) /\ ev.code \notin forward_buttons

CodesOf(es) == [i \in 1..Len(es) |-> es[i].code]
ReleasesOf(cs) == [i \in 1..Len(cs) |-> [type |-> "button", code |-> cs[i], value |-> 0]]

\* C1: no stuck button.  Whenever held is false, every press of a code outside
\* the allow-list that the gate has output is followed by a release of that
\* code in the cumulative output (so the release came no later than the batch
\* that took held from true to false), and a batch returned with held false
\* holds no press of a code outside the allow-list.
NoStuckButton ==
    /\ ~state => dangling = {}
    /\ (Returned /\ ~state) =>
           \A i \in DOMAIN g_ret : ~UnlistedPress(g_ret[i])

\* C1 witness: a button outside the allow-list was output pressed, is still
\* held (the batch has no event of it) and the modifier release flushed it.
NoStuckButtonWitness ==
    /\ Returned /\ Transition
    /\ "lt" \in g_prevdang
    /\ \A i \in DOMAIN g_evs : g_evs[i].code # "lt"
    /\ dangling = {}

\* C2: bypass completeness.  A call after which held is true returns exactly
\* the batch of the wrapped source.
BypassCompleteness == (Returned /\ state) => g_ret = g_evs

\* C2 witness: held became true in this call, the allow-list is not empty, the
\* pending list is not empty and the batch holds an event the filter drops.
BypassWitness ==
    /\ Returned /\ state /\ ~g_prev
    /\ passthrough # {}
    /\ g_prevdis # <<>>
    /\ \E i \in DOMAIN g_evs : ~ConfigOrListedButton(g_evs[i])

\* C3 as stated: with held false before and after, the output is the
\* Configuration events and the Button or Axis events of the allow-list
\* (stated for the runs in which the buttons alternate and held has followed
\* the modifiers, so that no other divergence is involved).
PassthroughPurityWithAxis ==
    (Returned /\ faithful /\ ~g_prev /\ ~state) => g_ret = SelectSeq(g_evs, ConfigOrListed)

\* C3 amended: with held false before and after, the output is exactly the
\* Configuration events and the Button events of the allow-list, in order;
\* Axis events are dropped whatever their code.
PassthroughPurity ==
    (Returned /\ ~g_prev /\ ~state) => g_ret = SelectSeq(g_evs, ConfigOrListedButton)

\* C3 witness: a filtered call whose batch holds an allow-listed button event
\* and an axis event with an allow-listed code.
PassthroughPurityWitness ==
    /\ Returned /\ ~g_prev /\ ~state
    /\ \E i \in DOMAIN g_evs : IsButton(g_evs[i]) /\ InAllowList(g_evs[i])
    /\ \E i \in DOMAIN g_evs : g_evs[i].type = "axis" /\ InAllowList(g_evs[i])
    /\ Len(g_ret) = 1

\* C4: transition flush.  A call that takes held from true to false returns the
\* filtered accumulator followed by one release per entry of the pending list
\* (the entries it had plus those of this batch), in list order, and leaves the
\* list empty; any other call returns the batch or the filtered accumulator
\* and leaves the list with every entry.
TransitionFlush ==
    Returned =>
        LET filt == SelectSeq(g_evs, ConfigOrListedButton)
            full == g_prevdis \o CodesOf(SelectSeq(g_evs, UnlistedPress))
        IN IF Transition
           THEN g_ret = filt \o ReleasesOf(full) /\ to_disable = <<>>
           ELSE g_ret = (IF state THEN g_evs ELSE filt) /\ to_disable = full

\* C4 witness: a flush of two different codes, one pending from an earlier
\* call and one pressed in the transition batch.
TransitionFlushWitness ==
    /\ Returned /\ Transition
    /\ Len(g_prevdis) = 1
    /\ Len(g_scanned) = 2
    /\ g_scanned[1] # g_scanned[2]
    /\ Len(g_ret) >= 2

\* the modifiers m and the buttons X of the two-batch scenario
ScenarioX == Codes \ (passthrough \cup forward_buttons)
FirstBatch(m, X) == {<<Btn(m, 1), Btn(X, 1)>>, <<Btn(X, 1), Btn(m, 1)>>}
\* what the first batch leaves in the pending list
FirstPending(m, X) ==
    IF m \in passthrough THEN {<<X>>} ELSE {<<m, X>>, <<X, m>>}

\* the first batch of the scenario, the same in C5 as stated and as amended
TwoBatchFirst ==
    \A m \in forward_buttons, X \in ScenarioX :
        (Returned /\ g_calls = 1 /\ g_evs \in FirstBatch(m, X)) =>
            /\ g_ret = g_evs
            /\ state
            /\ X \in Range(to_disable)

\* the second call of the scenario: the gate is as the first batch left it
TwoBatchSecond(m, X) ==
    /\ Returned /\ g_calls = 2
    /\ g_prev
    /\ g_prevdis \in FirstPending(m, X)
    /\ g_evs = <<Btn(m, 0)>>

\* C5 as stated: the second batch yields the filtered accumulator plus a
\* synthesized release for X and nothing else (stated for the runs in which
\* the buttons alternate and held has followed the modifiers).
TwoBatchOnlyX ==
    /\ TwoBatchFirst
    /\ \A m \in forward_buttons, X \in ScenarioX :
           (TwoBatchSecond(m, X) /\ faithful) =>
               /\ g_ret = SelectSeq(g_evs, ConfigOrListedButton) \o <<Btn(X, 0)>>
               /\ to_disable = <<>>

\* C5 amended: the first batch is returned whole and leaves X pending; the
\* second yields the filtered accumulator plus one synthesized release per
\* pending entry: X, and also m when m is not in the allow-list, in the order
\* of their presses; the pending list is then empty.
TwoBatch ==
    /\ TwoBatchFirst
    /\ \A m \in forward_buttons, X \in ScenarioX :
           TwoBatchSecond(m, X) =>
               /\ ~state
               /\ to_disable = <<>>
               /\ g_ret = IF m \in passthrough
                          THEN <<Btn(m, 0), Btn(X, 0)>>
                          ELSE ReleasesOf(g_prevdis)

\* C5 witness: the second batch of the scenario with a modifier outside the
\* allow-list.
TwoBatchWitness ==
    \E m \in forward_buttons \ passthrough, X \in ScenarioX :
        TwoBatchSecond(m, X) /\ Len(g_ret) = 2

\* C6 as stated, for event streams in which the presses and releases of each
\* button alternate: after every call held is true exactly when a modifier
\* button is down.
HeldIffModifierDown ==
    (g_calls > 0 /\ alternating) => (state <=> down \cap forward_buttons # {})

\* C7 as stated: the pending list holds no allow-listed code, and a batch of
\* allow-listed button events leaves it unchanged (the second part stated for
\* the runs in which the buttons alternate and held has followed the
\* modifiers).
PendingUnchangedByListed ==
    /\ \A i \in DOMAIN to_disable : to_disable[i] \notin passthrough
    /\ (/\ Returned /\ faithful
        /\ \A i \in DOMAIN g_evs : IsButton(g_evs[i]) /\ InAllowList(g_evs[i]))
           => to_disable = g_prevdis

\* C7 amended: the pending list holds no allow-listed code; a batch of
\* allow-listed button events appends nothing to it, and leaves it unchanged
\* unless the batch takes held from true to false, which empties it.
PendingOnlyUnlisted ==
    /\ \A i \in DOMAIN to_disable : to_disable[i] \notin passthrough
    /\ (Returned /\ \A i \in DOMAIN g_evs : IsButton(g_evs[i]) /\ InAllowList(g_evs[i]))
           => /\ g_scanned = g_prevdis
              /\ to_disable = IF Transition THEN <<>> ELSE g_prevdis

\* C7 witness: a press of an allow-listed button with a pending entry kept.
PendingOnlyUnlistedWitness ==
    /\ Returned /\ ~Transition
    /\ g_evs # <<>>
    /\ \A i \in DOMAIN g_evs : IsPress(g_evs[i]) /\ InAllowList(g_evs[i])
    /\ to_disable # <<>>
    /\ to_disable = g_prevdis

\* C8 as stated: the scan appends the codes of the presses that are neither
\* allow-listed nor modifiers, and no release is synthesized for a modifier
\* (stated for the runs in which the buttons alternate and held has followed
\* the modifiers).
AppendedNoModifier ==
    (Returned /\ faithful) =>
        /\ g_scanned = g_prevdis \o CodesOf(SelectSeq(g_evs, UnlistedOtherPress))
        /\ \A i \in DOMAIN g_scanned : g_scanned[i] \notin forward_buttons

\* C8 amended: the scan appends exactly the codes of the Button presses of the
\* batch whose code is not in the allow-list, modifiers included, in batch
\* order.
AppendedUnlisted ==
    Returned =>
        /\ Len(g_scanned) >= Len(g_prevdis)
        /\ SubSeq(g_scanned, 1, Len(g_prevdis)) = g_prevdis
        /\ SubSeq(g_scanned, Len(g_prevdis) + 1, Len(g_scanned))
               = CodesOf(SelectSeq(g_evs, UnlistedPress))

\* C8 witness: the press of a modifier outside the allow-list is appended
\* and flushed as a synthesized release in the same call.
AppendedUnlistedWitness ==
    /\ Returned /\ Transition
    /\ \E i \in DOMAIN g_evs :
           /\ UnlistedPress(g_evs[i])
           /\ g_evs[i].code \in forward_buttons
           /\ g_scanned[Len(g_scanned)] = g_evs[i].code
           /\ g_ret[Len(g_ret)] = Btn(g_evs[i].code, 0)

\* C19: every produce call of the gate, whether it returns the filtered
\* batch, the raw batch or the transition batch, returns the configuration
\* events of its input exactly once and in their input order, and in the
\* transition batch they come before the synthesized releases.
ConfigNeverDropped ==
    Returned =>
        /\ SelectSeq(g_ret, IsConfig) = SelectSeq(g_evs, IsConfig)
        /\ Transition =>
               \A i \in DOMAIN g_ret :
                   IsConfig(g_ret[i]) => i <= Len(g_ret) - Len(g_scanned)

\* C19 witness: a transition batch whose input has two different
\* configuration events around the release of a modifier the gate does not
\* forward, and whose output has the two in their input order, before a
\* synthesized release.
ConfigNeverDroppedWitness ==
    /\ Returned /\ Transition
    /\ Len(g_evs) = 3
    /\ IsConfig(g_evs[1]) /\ IsConfig(g_evs[3]) /\ g_evs[1] # g_evs[3]
    /\ g_evs[2].type = "button" /\ g_evs[2].code \notin passthrough
    /\ g_scanned # <<>>
    /\ Len(g_ret) >= 3
    /\ g_ret[1] = g_evs[1] /\ g_ret[2] = g_evs[3]
    /\ g_ret[Len(g_ret)] = Btn(g_scanned[Len(g_scanned)], 0)

\* ---------------------------------------------------- session: properties
\* C9 as stated: when the session hands its exception to main and no close
\* call raised, whatever ended the session, close(True) has been called
\* exactly once on every device whose open succeeded and never on a device
\* whose open failed or was not attempted.
CloseOncePerOpened ==
    (pc = "exit" /\ ~close_raised) =>
        \A d \in Devices : closes[d] = IF d \in opened THEN 1 ELSE 0

\* C10 as stated: in every loop iteration, the ones in which select timed out
\* included, consume is called on every sink before the iteration ends.
ConsumeEveryIteration ==
    pc = "pace" =>
        \A i \in DOMAIN Sinks :
            \E j \in DOMAIN log : log[j].op = "consume" /\ log[j].dev = Sinks[i]

\* the device owns a handle that select returned ready
OwnsReady(d) == \E f \in r : fd_to_dev[f] = d

\* the concatenation of the batches of a sequence of calls
RECURSIVE Concat(_)
Concat(calls) ==
    IF calls = <<>> THEN <<>> ELSE Head(calls).arg \o Concat(Tail(calls))

\* C12: when the produce calls of an iteration are over, produce has been
\* called exactly once on each registered device that owns a ready handle
\* and on no other device, in the order prepare registered the devices, and
\* the merged batch is the concatenation of the results in that order.
ProduceOncePerReady ==
    pc = "dispatch" =>
        /\ devs = PrepareList
        /\ \A i \in DOMAIN log : log[i].op = "produce"
        /\ [i \in DOMAIN log |-> log[i].dev] = SelectSeq(devs, OwnsReady)
        /\ evs = Concat(log)

\* C12 witness: two handles of one device are ready in the same iteration;
\* the device got one produce call, and its event is the merged batch.
ProduceOncePerReadyWitness ==
    /\ pc = "dispatch"
    /\ \E f1, f2 \in r : f1 # f2 /\ fd_to_dev[f1] = fd_to_dev[f2]
    /\ Len(log) = 1
    /\ Len(evs) = 1

IsProduce(c) == c.op = "produce"

\* C13: when an iteration in which no call raised reaches its pacing step,
\* so before the next select, its calls are the produce calls followed, if
\* the merged batch is not empty, by one process call of the multiplexer on
\* the merged batch and one consume call on each of d_ds5, d_xinput and
\* d_raw, each with the whole batch the multiplexer returned; if the merged
\* batch is empty (a ready source that returned nothing included) there is
\* no process and no consume call, and no exception is pending.
BatchAtomicity ==
    pc = "pace" =>
        LET produced == SelectSeq(log, IsProduce)
            merged == Concat(produced)
            after == SubSeq(log, Len(produced) + 1, Len(log))
        IN /\ exc = "none"
           /\ \A i \in 1..Len(produced) : log[i] = produced[i]
           /\ after = IF merged = <<>> THEN <<>>
                      ELSE <<Call("process", "multiplexer", merged),
                             Call("consume", "d_ds5", Process(merged)),
                             Call("consume", "d_xinput", Process(merged)),
                             Call("consume", "d_raw", Process(merged))>>

\* C13 witness: two sources were ready, one returned nothing and the other
\* an event, and the batch went through the multiplexer to the three sinks.
BatchAtomicityWitness ==
    /\ pc = "pace"
    /\ Len(log) = 6
    /\ \E i \in 1..2 : log[i].op = "produce" /\ log[i].arg = <<>>
    /\ \E i \in 1..2 : log[i].op = "produce" /\ log[i].arg # <<>>
    /\ log[6].op = "consume"

\* the start timestamps of two consecutive iterations are at least
\* REPORT_DELAY_MIN apart: when an iteration is about to take its start
\* timestamp, that long has passed since the previous one was taken
StartSpacing == pc = "select" => elapsed >= REPORT_DELAY_MIN

\* no sink has received two consume calls in the iteration
ConsumeAtMostOnce ==
    \A i \in DOMAIN Sinks :
        Cardinality({j \in DOMAIN log :
                        log[j].op = "consume" /\ log[j].dev = Sinks[i]}) <= 1

\* when the dispatch to the sinks is about to begin, the previous dispatch
\* of the session began at least REPORT_DELAY_MIN earlier
DispatchSpacing ==
    (pc = "consume" /\ k = 1) => since_dispatch >= REPORT_DELAY_MIN

\* C11 as stated: consecutive iterations start at least 1/REPORT_FREQ_MAX
\* apart, each sink gets at most one consume call per iteration, and two
\* consecutive dispatches to the sinks are never closer than
\* 1/REPORT_FREQ_MAX, for any timing of the readiness signals.
MaxReportRate == StartSpacing /\ ConsumeAtMostOnce /\ DispatchSpacing

\* the positions of main inside a call of controller_loop_xinput
InSession ==
    pc \in {"prepare", "select", "produce", "dispatch", "consume", "pace",
            "finally", "exit"}

\* C14: an Exception that reaches main, from a session or from discovery,
\* takes main to the sleep of ERROR_DELAY seconds and not to its end; unless
\* a KeyboardInterrupt arrives during that sleep or before main is back in
\* its try block, main then goes back to discovery; and a session starts only
\* from discovery, at a time no session is running.
SupervisorRetry ==
    [][/\ ((pc = "exit" /\ exc = "Exception")
             \/ (pc = "enumerate" /\ exc' = "Exception"))
           => (pc' = "sleep_error" /\ delay' = ERROR_DELAY * TicksPerSecond)
       /\ (pc = "sleep_error" /\ pc' # "raised") => pc' = "loop"
       /\ (pc = "loop" /\ pc' # "raised") => pc' = "enumerate"
       /\ (InSession' /\ ~InSession) => (pc = "enumerate" /\ pc' = "prepare")]_vars

\* C14 witness: a consume call of a sink raised an Exception, the session was
\* torn down, main slept ERROR_DELAY and is back at discovery.
SupervisorRetryWitness ==
    /\ pc = "enumerate"
    /\ exc = "Exception"
    /\ cause = "consume"
    /\ ~close_raised
    /\ delay = 0

\* C18 as stated: when the session returns control to main after a close
\* call of its teardown raised, close has been called exactly once on every
\* device the session opened.
TeardownCompletes ==
    (pc = "exit" /\ close_raised) => \A d \in opened : closes[d] = 1

\* C15 as stated: once a KeyboardInterrupt has ended the loop of a session,
\* main goes through the teardown to its end and never to the backoff sleep,
\* to discovery or to a session again, whatever the close calls of the
\* teardown do.
CancellationTerminates ==
    interrupted => pc \in {"finally", "exit", "log_interrupt", "exited", "raised"}

\* C16 as stated: once the open of a device has raised, the device is not in
\* devs and owns no handle of fds or fd_to_dev, the session is never at a
\* position of the poll loop, and when it hands over to main every device
\* opened before is closed and an exception is propagating.
OpenFailure ==
    failed # {} =>
        /\ \A m \in failed :
               /\ m \notin Range(devs)
               /\ \A f \in Range(fds) : f \in DOMAIN fd_to_dev /\ fd_to_dev[f] # m
        /\ \A i \in DOMAIN log : log[i].op \notin {"produce", "consume"}
        /\ pc \notin {"prepare", "select", "produce", "dispatch", "consume", "pace"}
        /\ pc = "exit" => /\ exc # "none"
                          /\ \A d \in opened : closes[d] = 1

\* C17 as stated: once close has been called on the gate of a session in
\* which the gate's open succeeded, close has been called exactly once on the
\* source the gate wraps, with the flag the gate was given (True).
GateClosesParent ==
    (closes["d_raw"] >= 1 /\ parent_opened = 1) => parent_closed = <<TRUE>>

\* C20: self.state and self.to_disable change only in a produce call on the
\* gate, made in an iteration in which a handle of d_raw is ready; every
\* other step of a session, the gate's open, close and consume included,
\* leaves both as they are; and the gate of a new session starts with
\* self.state false and self.to_disable empty.
GateStateFrame ==
    [][/\ (InSession /\ (state' # state \/ to_disable' # to_disable))
           => (pc = "produce" /\ devs[k] = "d_raw" /\ OwnsReady("d_raw"))
       /\ (pc = "enumerate" /\ pc' = "prepare")
           => (state' = FALSE /\ to_disable' = <<>>)]_vars

\* C20 witness: the gate is held with a release pending at the end of an
\* iteration in which no handle of d_raw was ready and the gate's consume was
\* called.
GateStateFrameWitness ==
    /\ pc = "pace"
    /\ state /\ to_disable # <<>>
    /\ ~OwnsReady("d_raw")
    /\ \E i \in DOMAIN log : log[i].op = "consume" /\ log[i].dev = "d_raw"

====
